---- MODULE Spec2Model ----
(***************************************************************************)
(* erd: retrieval of CI build artifacts.  A state-machine model of the     *)
(* credential store (logins.rs, auth.rs), of the archive extraction        *)
(* (gitlab.rs, main.rs) and of the fetch orchestration (commands/fetch.rs).*)
(*                                                                         *)
(* Text (URLs, archive entry names, patterns) is a sequence of one-symbol  *)
(* strings, so that prefix, suffix and length are computed, not assumed.   *)
(* Option<T> is a record with a tag: None, or Some(v).                     *)
(* Result<T, E> is a record with a tag: Ok(v), or Err(kind, detail).       *)
(***************************************************************************)
EXTENDS Integers, Sequences, FiniteSets, TLC

VARIABLES
    logins,     \* Logins.logins: the in-memory credential store, a sequence of Login
    authFile,   \* the persisted store file (erd-logins.toml) on disk
    lop,        \* the last credential-store operation with its arguments and result
    xin,        \* the archive and the pattern handed to the extraction
    xout,       \* what the extraction returned for xin
    config,     \* Config: the configured sources with their artifacts
    dirExists,  \* whether the output directory .erd/downloads exists
    files,      \* the output directory: file name -> Option of content
    last        \* the last fetch: arguments, effects and result

loginVars == <<logins, authFile, lop>>
extractVars == <<xin, xout>>
fetchVars == <<config, dirExists, files, last>>
vars == <<logins, authFile, lop, xin, xout, config, dirExists, files, last>>

----------------------------------------------------------------------------
(* Bounds of the model *)

\* longest URL kept in the store; queries are one symbol longer
MaxUrlLen == 1
\* most records in a store
MaxLogins == 2

----------------------------------------------------------------------------
(* Option and Result *)

None == [tag |-> "None"]
Some(v) == [tag |-> "Some", val |-> v]
Ok(v) == [tag |-> "Ok", val |-> v]
Err(kind, detail) == [tag |-> "Err", kind |-> kind, detail |-> detail]

----------------------------------------------------------------------------
(* Text *)

\* the text of at most n symbols over alphabet
TextUpTo(alphabet, n) == UNION {[1..k -> alphabet] : k \in 0..n}

\* str::starts_with: p is a textual prefix of s
starts_with(s, p) == Len(p) <= Len(s) /\ SubSeq(s, 1, Len(p)) = p

\* str::ends_with: p is a textual suffix of s
ends_with(s, p) == Len(p) <= Len(s) /\ SubSeq(s, Len(s) - Len(p) + 1, Len(s)) = p

----------------------------------------------------------------------------
(* Credential store: logins.rs (and its earlier copy auth.rs) *)

UrlChar == {"a", "b"}
StoredUrls == TextUpTo(UrlChar, MaxUrlLen)
QueryUrls == TextUpTo(UrlChar, MaxUrlLen + 1)
Usernames == {"user"}
Passwords == {"tok1", "tok2"}

\* struct Login
Login == [url : StoredUrls, username : Usernames, password : Passwords]

\* struct Logins { logins: Vec<Login> }: any list, as a hand-edited file may hold
\* several records of one URL
Stores == UNION {[1..k -> Login] : k \in 0..MaxLogins}

\* the body of the for loop of find_login, from record i on
RECURSIVE find_login_from(_, _, _, _, _)
find_login_from(ls, url, i, best_match, match_length) ==
    IF i > Len(ls) THEN best_match
    ELSE IF Len(url) > match_length /\ starts_with(url, ls[i].url)
         THEN find_login_from(ls, url, i + 1, Some(ls[i]), Len(url))
         ELSE find_login_from(ls, url, i + 1, best_match, match_length)

\* Logins::find_login
find_login(ls, url) == find_login_from(ls, url, 1, None, 0)

\* the index of the first record with the URL, 0 when there is none
RECURSIVE first_with_url(_, _, _)
first_with_url(ls, url, i) ==
    IF i > Len(ls) THEN 0
    ELSE IF ls[i].url = url THEN i
    ELSE first_with_url(ls, url, i + 1)

\* set_login with a record of a new URL put in front of the store
set_login_in_front(ls, login) ==
    LET i == first_with_url(ls, login.url, 1) IN
    IF i > 0
    THEN [logins |-> [ls EXCEPT ![i] = login], ret |-> Some(ls[i])]
    ELSE [logins |-> <<login>> \o ls, ret |-> None]

\* set_login with the replaced record moved to the end of the store
set_login_moving(ls, login) ==
    LET i == first_with_url(ls, login.url, 1) IN
    IF i > 0
    THEN [logins |-> Append(SubSeq(ls, 1, i - 1) \o SubSeq(ls, i + 1, Len(ls)), login),
          ret |-> Some(ls[i])]
    ELSE [logins |-> Append(ls, login), ret |-> None]

\* Logins::set_login: the store afterwards and the value returned
set_login(ls, login) ==
    LET i == first_with_url(ls, login.url, 1) IN
    IF i > 0
    THEN [logins |-> [ls EXCEPT ![i] = login], ret |-> Some(ls[i])]
    ELSE [logins |-> Append(ls, login), ret |-> None]

----------------------------------------------------------------------------
(* The store file *)

FileAbsent == [kind |-> "absent"]
FileUnreadable == [kind |-> "unreadable"]
FileMalformed == [kind |-> "malformed"]
\* toml::to_string of a store
FileToml(ls) == [kind |-> "toml", logins |-> ls]
FileStates == {FileAbsent, FileUnreadable, FileMalformed} \cup {FileToml(ls) : ls \in Stores}

\* std::fs::read_to_string followed by toml::from_str
parse_store_file(file) ==
    IF file.kind \in {"absent", "unreadable"} THEN Err("IOError", "Failed to read")
    ELSE IF file.kind = "malformed" THEN Err("Deserialize", "file")
    ELSE Ok(file.logins)

\* logins.rs read_logins_file
read_logins_file(file) ==
    IF file.kind = "absent" THEN Ok(<<>>)
    ELSE parse_store_file(file)

\* auth.rs read_auth_file
read_auth_file(file) == parse_store_file(file)

\* logins.rs save_logins_file
save_logins_file(file, ls) == FileToml(ls)

----------------------------------------------------------------------------
(* Archive extraction: gitlab.rs get_artifact_gitlab, main.rs extract_file *)

\* most entries of an archive
MaxEntries == 2

\* entry names as the archive lists them, "/" separating the path segments
EntryNames ==
    { <<"a", "/", "x">>, <<"a", "/", "t">>, <<"b", "/", "t">>, <<"t">>, <<"x", "t">>,
      <<"b", "/">>, <<"/">>, <<"a", "/", "b", "/", "t">> }

\* ArtifactConfig.artifact_pattern
Patterns == { <<"t">>, <<"/", "t">>, <<"x">>, <<>>, <<"b", "/", "t">>, <<"z">> }

\* an entry's content, or an entry whose content cannot be read back
EntryBodies ==
    { [data |-> <<0>>, readable |-> TRUE], [data |-> <<1>>, readable |-> TRUE],
      [data |-> <<0, 1>>, readable |-> TRUE], [data |-> <<>>, readable |-> FALSE] }

Entries == {[name |-> n, data |-> b.data, readable |-> b.readable] :
                n \in EntryNames, b \in EntryBodies}

\* ZipArchive: the entries in enumeration order; names are the keys of a map
Archives ==
    {a \in UNION {[1..k -> Entries] : k \in 0..MaxEntries} :
        \A i, j \in 1..Len(a) : a[i].name = a[j].name => i = j}

\* a downloaded buffer: a zip archive, or bytes that are none
NotZip == [kind |-> "bytes"]
Zip(a) == [kind |-> "zip", entries |-> a]
Buffers == {NotZip} \cup {Zip(a) : a \in Archives}

\* a name without its trailing separators
RECURSIVE strip_trailing_sep(_)
strip_trailing_sep(name) ==
    IF Len(name) > 0 /\ name[Len(name)] = "/"
    THEN strip_trailing_sep(SubSeq(name, 1, Len(name) - 1))
    ELSE name

\* the text after the last separator
RECURSIVE after_last_sep(_, _)
after_last_sep(name, i) ==
    IF i = 0 THEN name
    ELSE IF name[i] = "/" THEN SubSeq(name, i + 1, Len(name))
    ELSE after_last_sep(name, i - 1)

\* the whole entry name taken as the file name
path_file_name_whole(name) == IF name = <<>> THEN None ELSE Some(name)

\* Path::file_name: the last component of the path, none for a path without one
path_file_name(name) ==
    LET stripped == strip_trailing_sep(name) IN
    IF stripped = <<>> THEN None
    ELSE Some(after_last_sep(stripped, Len(stripped)))

\* ZipArchive::by_name
by_name(a, name) == a[CHOOSE i \in 1..Len(a) : a[i].name = name]

Panic(msg) == [tag |-> "Panic", msg |-> msg]

\* struct FileData
FileData(file_name, data) == [file_name |-> file_name, data |-> data]

\* main.rs extract_file
extract_file(a, file) ==
    LET file_name == path_file_name(file)
        jar == by_name(a, file)
    IN  IF file_name = None THEN Panic("Could not get filename from path")
        ELSE IF ~jar.readable THEN Err("IOError", "Failed to extract artifact from zip")
        ELSE Ok(FileData(file_name.val, jar.data))

\* the loop over file_names() with the first matching name kept
RECURSIVE found_jar_first(_, _, _, _)
found_jar_first(a, pattern, i, found_jar) ==
    IF i > Len(a) THEN found_jar
    ELSE IF ends_with(a[i].name, pattern) /\ found_jar = None
         THEN found_jar_first(a, pattern, i + 1, Some(a[i].name))
         ELSE found_jar_first(a, pattern, i + 1, found_jar)

\* the loop over file_names() falling back to the last entry when no name matches
RECURSIVE found_jar_or_last(_, _, _, _)
found_jar_or_last(a, pattern, i, found_jar) ==
    IF i > Len(a)
    THEN IF found_jar = None /\ Len(a) > 0 THEN Some(a[Len(a)].name) ELSE found_jar
    ELSE IF ends_with(a[i].name, pattern)
         THEN found_jar_or_last(a, pattern, i + 1, Some(a[i].name))
         ELSE found_jar_or_last(a, pattern, i + 1, found_jar)

\* the loop over file_names() of get_artifact_gitlab, from entry i on
RECURSIVE found_jar_from(_, _, _, _)
found_jar_from(a, pattern, i, found_jar) ==
    IF i > Len(a) THEN found_jar
    ELSE IF ends_with(a[i].name, pattern)
         THEN found_jar_from(a, pattern, i + 1, Some(a[i].name))
         ELSE found_jar_from(a, pattern, i + 1, found_jar)

\* get_artifact_gitlab after the download: the entry found and the value returned
extract_matching(buffer, pattern) ==
    IF buffer.kind # "zip"
    THEN [found_jar |-> None, ret |-> Err("IOError", "Invalid zip archive")]
    ELSE LET found_jar == found_jar_from(buffer.entries, pattern, 1, None) IN
         IF found_jar = None THEN [found_jar |-> None, ret |-> Ok(None)]
         ELSE LET r == extract_file(buffer.entries, found_jar.val) IN
              [found_jar |-> found_jar,
               ret |-> IF r.tag = "Ok" THEN Ok(Some(r.val)) ELSE r]

----------------------------------------------------------------------------
(* Configuration: sources and their artifacts *)

\* struct ArtifactConfig
ArtifactConfig(id, project_id, branch, artifact_pattern) ==
    [id |-> id, project_id |-> project_id, branch |-> branch,
     artifact_pattern |-> artifact_pattern]

\* struct SourceConfig
SourceConfig(id, url, artifacts) ==
    [id |-> id, url |-> url, kind |-> "Gitlab", artifacts |-> artifacts]

\* URLs, in the pieces that the prefixes of interest are made of
GitlabCom == <<"https://gitlab.com/">>
ExampleCom == <<"https://git.example.com/">>
ExampleTeam == <<"https://git.example.com/", "team/">>

ArtSvc == ArtifactConfig("svc", "101", "main", <<"t">>)
ArtLib == ArtifactConfig("lib", "102", "dev", <<"x">>)
ArtSvcTeam == ArtifactConfig("svc", "201", "main", <<"/", "t">>)

\* struct Config: the configurations the model runs with
Configs ==
    { [sources |-> <<SourceConfig("gitlab", GitlabCom, <<ArtSvc, ArtLib>>)>>],
      [sources |-> <<SourceConfig("team", ExampleTeam, <<ArtLib>>),
                     SourceConfig("gitlab", GitlabCom, <<ArtSvc, ArtSvcTeam>>)>>],
      [sources |-> <<SourceConfig("team", ExampleTeam, <<ArtSvcTeam>>),
                     SourceConfig("gitlab", GitlabCom, <<ArtSvc>>)>>] }

\* the arguments of fetch on the command line: an artifact id, configured or not, and
\* a build id or none
FetchArgs ==
    { [art_id |-> "svc", build_id |-> None], [art_id |-> "svc", build_id |-> Some("7")],
      [art_id |-> "lib", build_id |-> None], [art_id |-> "nope", build_id |-> None] }

\* a token that HeaderValue refuses (it holds a line break)
BadToken == "tok\n"

FetchLogin(url, password) == [url |-> url, username |-> "user", password |-> password]

\* the credential stores the fetches run with
FetchStores ==
    { <<>>,
      <<FetchLogin(GitlabCom, "tok1")>>,
      <<FetchLogin(ExampleCom, "tok1"), FetchLogin(ExampleTeam, "tok2"),
        FetchLogin(GitlabCom, "tok3")>>,
      <<FetchLogin(GitlabCom, BadToken)>>,
      <<FetchLogin(ExampleCom, "tok1")>> }

----------------------------------------------------------------------------
(* Remote calls: gitlab.rs *)

Entry(name, data) == [name |-> name, data |-> data, readable |-> TRUE]

\* the archives the remote serves
RemoteArchives ==
    { <<>>,
      <<Entry(<<"a", "/", "t">>, <<0>>)>>,
      <<Entry(<<"a", "/", "t">>, <<1>>)>>,
      <<Entry(<<"a", "/", "t">>, <<0>>), Entry(<<"b", "/", "t">>, <<0, 1>>)>>,
      <<Entry(<<"a", "/", "x">>, <<0>>), Entry(<<"t">>, <<1>>)>>,
      <<[name |-> <<"a", "/", "t">>, data |-> <<>>, readable |-> FALSE]>> }

\* what the remote answers to a download: no answer (send fails), an answer whose
\* body breaks off (read_to_end fails), or a status with a body
Responses ==
    {[kind |-> "send_failed"], [kind |-> "read_failed"]}
    \cup {[kind |-> "response", status |-> "200 OK", body |-> b] :
             b \in {NotZip} \cup {Zip(a) : a \in RemoteArchives}}
    \cup {[kind |-> "response", status |-> "404 Not Found", body |-> NotZip]}

\* get_token_value
get_token_value(token) ==
    IF token = BadToken THEN Err("InvalidToken", token) ELSE Ok(token)

Request(method, url, token) == [method |-> method, url |-> url, token |-> token]

\* the GET of both download functions: the requests issued and the buffer read
download(url, token, resp) ==
    LET token_value == get_token_value(token) IN
    IF token_value.tag = "Err" THEN [requests |-> <<>>, ret |-> token_value]
    ELSE LET requests == <<Request("GET", url, token_value.val)>> IN
         IF resp.kind = "send_failed"
         THEN [requests |-> requests, ret |-> Err("SourceRequestError", url)]
         ELSE IF resp.kind = "read_failed"
         THEN [requests |-> requests,
               ret |-> Err("IOError", "Failed to read data from artifact zip")]
         ELSE [requests |-> requests, ret |-> Ok(resp.body)]

\* get_latest_artifact_gitlab
get_latest_artifact_gitlab(artifact, token, resp) ==
    download(<<"https://gitlab.com/", "api/v4/projects/", artifact.project_id,
               "/jobs/artifacts/", artifact.branch, "/download?job=build">>,
             token, resp)

\* get_artifact_version_gitlab asking for the latest archive of the branch
get_artifact_version_latest(artifact, token, build_id, resp) ==
    get_latest_artifact_gitlab(artifact, token, resp)

\* get_artifact_version_gitlab
get_artifact_version_gitlab(artifact, token, build_id, resp) ==
    download(<<"https://gitlab.com/", "api/v4/projects/", artifact.project_id,
               "/jobs/", build_id, "/artifacts">>,
             token, resp)

\* get_artifact_gitlab
get_artifact_gitlab(artifact, token, build_id, resp) ==
    LET dl == IF build_id.tag = "Some"
              THEN get_artifact_version_gitlab(artifact, token, build_id.val, resp)
              ELSE get_latest_artifact_gitlab(artifact, token, resp)
    IN  IF dl.ret.tag = "Err"
        THEN [requests |-> dl.requests, body |-> None, found_jar |-> None, ret |-> dl.ret]
        ELSE LET x == extract_matching(dl.ret.val, artifact.artifact_pattern) IN
             [requests |-> dl.requests, body |-> Some(dl.ret.val),
              found_jar |-> x.found_jar, ret |-> x.ret]

----------------------------------------------------------------------------
(* Fetch: commands/fetch.rs *)

\* enum GetArtifactAnswer
NotFound == [answer |-> "NotFound"]
NewArtifact(name) == [answer |-> "NewArtifact", name |-> name]
UpToDate(name) == [answer |-> "UpToDate", name |-> name]

\* the names a file of the output directory can have
OutNames == {path_file_name(n).val : n \in {m \in EntryNames : path_file_name(m) # None}}

\* the output directory with no file in it
NoFiles == [n \in OutNames |-> None]

\* where a filesystem call of get_artifact fails: nowhere, creating the directory,
\* reading the stored file, creating the file, or writing it after so many bytes
Faults ==
    {[at |-> "none"], [at |-> "mkdir"], [at |-> "read"], [at |-> "create"]}
    \cup {[at |-> "write", written |-> 0]}

\* sha256sum_mem: the digest of bytes in memory; distinct bytes, distinct digests
sha256sum_mem(data) == <<"sha256", data>>

\* sha256sum_file: the digest of a stored file
sha256sum_file(content) == <<"sha256", content>>

\* is_new with the digests compared for equality
is_new_inverted(stored, file_data, fault) ==
    IF stored = None THEN Ok(TRUE)
    ELSE IF fault.at = "read" THEN Err("IOError", "Failed to read existing file")
    ELSE Ok(sha256sum_file(stored.val) = sha256sum_mem(file_data.data))

\* get_artifact::is_new, stored being the file at the output path if there is one
is_new(stored, file_data, fault) ==
    IF stored = None THEN Ok(TRUE)
    ELSE IF fault.at = "read" THEN Err("IOError", "Failed to read existing file")
    ELSE Ok(sha256sum_file(stored.val) # sha256sum_mem(file_data.data))

\* write_artifact with the file opened for appending
write_artifact_appending(stored, file_data, fault) ==
    [ret |-> Ok(NewArtifact(file_data.file_name)),
     writes |-> <<file_data.file_name>>,
     stored |-> Some((IF stored = None THEN <<>> ELSE stored.val) \o file_data.data)]

\* File::create and write_all on the output file: the result, the file afterwards
write_artifact(stored, file_data, fault) ==
    IF fault.at = "create"
    THEN [ret |-> Err("IOError", "Failed to create Artifact file"), writes |-> <<>>,
          stored |-> stored]
    ELSE IF fault.at = "write" /\ fault.written < Len(file_data.data)
    THEN [ret |-> Err("IOError", "Failed to write Artifact"),
          writes |-> <<file_data.file_name>>,
          stored |-> Some(SubSeq(file_data.data, 1, fault.written))]
    ELSE [ret |-> Ok(NewArtifact(file_data.file_name)),
          writes |-> <<file_data.file_name>>,
          stored |-> Some(file_data.data)]

\* the match on file_data with a file that exists never written over
store_artifact_keeping(stored, art, fault) ==
    LET fresh == is_new(stored, art, fault) IN
    IF fresh.tag = "Err" THEN [ret |-> fresh, writes |-> <<>>, stored |-> stored]
    ELSE IF ~fresh.val
    THEN [ret |-> Ok(UpToDate(art.file_name)), writes |-> <<>>, stored |-> stored]
    ELSE IF stored # None
    THEN [ret |-> Ok(NewArtifact(art.file_name)), writes |-> <<>>, stored |-> stored]
    ELSE write_artifact(stored, art, fault)

\* the match on file_data with the file written again when it is up to date
store_artifact_rewriting(stored, art, fault) ==
    LET fresh == is_new(stored, art, fault) IN
    IF fresh.tag = "Err" THEN [ret |-> fresh, writes |-> <<>>, stored |-> stored]
    ELSE IF ~fresh.val
    THEN [ret |-> Ok(UpToDate(art.file_name)), writes |-> <<art.file_name>>,
          stored |-> Some(art.data)]
    ELSE write_artifact(stored, art, fault)

\* get_artifact, the match on file_data for a file that was extracted: up to date, or
\* written
store_artifact(stored, art, fault) ==
    LET fresh == is_new(stored, art, fault) IN
    IF fresh.tag = "Err" THEN [ret |-> fresh, writes |-> <<>>, stored |-> stored]
    ELSE IF ~fresh.val
    THEN [ret |-> Ok(UpToDate(art.file_name)), writes |-> <<>>, stored |-> stored]
    ELSE write_artifact(stored, art, fault)

\* what a fetch leaves behind that stops before anything is downloaded
Untouched(dir, fs) ==
    [requests |-> <<>>, writes |-> <<>>, body |-> None, found_jar |-> None,
     file_data |-> None, stored_before |-> None, dirExists |-> dir, files |-> fs]

\* get_artifact: the result with the remote calls issued, the files written and the
\* output directory afterwards
get_artifact(artifact, token, build_id, resp, fault, dir, fs) ==
    LET quiet == Untouched(dir, fs) IN
    IF ~dir /\ fault.at = "mkdir"
    THEN quiet @@ [ret |-> Err("IOError", "Failed to create output dir")]
    ELSE
    LET g == get_artifact_gitlab(artifact, token, build_id, resp)
        made == [quiet EXCEPT !.dirExists = TRUE, !.requests = g.requests,
                              !.body = g.body, !.found_jar = g.found_jar]
    IN
    IF g.ret.tag # "Ok" THEN made @@ [ret |-> g.ret]
    ELSE IF g.ret.val = None THEN made @@ [ret |-> Ok(NotFound)]
    ELSE
    LET art == g.ret.val.val
        w == store_artifact(fs[art.file_name], art, fault)
    IN
    [made EXCEPT !.file_data = Some(art), !.stored_before = fs[art.file_name],
                 !.writes = w.writes, !.files = [fs EXCEPT ![art.file_name] = w.stored]]
    @@ [ret |-> w.ret]

\* the first artifact of the list with the id, 0 when there is none
RECURSIVE artifact_with_id(_, _, _)
artifact_with_id(artifacts, art_id, j) ==
    IF j > Len(artifacts) THEN 0
    ELSE IF artifacts[j].id = art_id THEN j
    ELSE artifact_with_id(artifacts, art_id, j + 1)

\* the find_map with the later sources searched first
RECURSIVE find_source_artifact_reversed(_, _, _)
find_source_artifact_reversed(sources, art_id, i) ==
    IF i > Len(sources) THEN None
    ELSE LET later == find_source_artifact_reversed(sources, art_id, i + 1)
             j == artifact_with_id(sources[i].artifacts, art_id, 1)
         IN  IF later # None THEN later
             ELSE IF j > 0
             THEN Some([source |-> sources[i], artifact |-> sources[i].artifacts[j]])
             ELSE None

\* the find_map of fetch_single: the first source with such an artifact, and the artifact
RECURSIVE find_source_artifact(_, _, _)
find_source_artifact(sources, art_id, i) ==
    IF i > Len(sources) THEN None
    ELSE LET j == artifact_with_id(sources[i].artifacts, art_id, 1) IN
         IF j > 0 THEN Some([source |-> sources[i], artifact |-> sources[i].artifacts[j]])
         ELSE find_source_artifact(sources, art_id, i + 1)

\* fetch_single with the credential looked up before the artifact is located
fetch_single_login_first(cfg, ls, art_id, build_id, resp, fault, dir, fs) ==
    LET found == find_source_artifact(cfg.sources, art_id, 1)
        url == IF found = None THEN cfg.sources[1].url ELSE found.val.source.url
        login == find_login(ls, url)
    IN
    IF found = None
    THEN Untouched(dir, fs) @@ [ret |-> Err("NoSuchArtifact", art_id), lookups |-> <<url>>]
    ELSE IF login = None
    THEN Untouched(dir, fs) @@ [ret |-> Err("NoLogin", url), lookups |-> <<url>>]
    ELSE get_artifact(found.val.artifact, login.val.password, build_id, resp, fault, dir, fs)
         @@ [lookups |-> <<url>>]

\* fetch_single
fetch_single(cfg, ls, art_id, build_id, resp, fault, dir, fs) ==
    LET found == find_source_artifact(cfg.sources, art_id, 1) IN
    IF found = None
    THEN Untouched(dir, fs) @@ [ret |-> Err("NoSuchArtifact", art_id), lookups |-> <<>>]
    ELSE
    LET source == found.val.source
        login == find_login(ls, source.url)
    IN
    IF login = None
    THEN Untouched(dir, fs)
         @@ [ret |-> Err("NoLogin", source.url), lookups |-> <<source.url>>]
    ELSE get_artifact(found.val.artifact, login.val.password, build_id, resp, fault, dir, fs)
         @@ [lookups |-> <<source.url>>]

\* the (source, artifact) pairs in the order the loops of fetch_all visit them
RECURSIVE artifacts_in_order(_, _)
artifacts_in_order(sources, i) ==
    IF i > Len(sources) THEN <<>>
    ELSE [j \in 1..Len(sources[i].artifacts) |->
             [source |-> sources[i], artifact |-> sources[i].artifacts[j]]]
         \o artifacts_in_order(sources, i + 1)

\* what the remote answers and where the filesystem fails while fetch_all handles
\* one artifact
Worlds ==
    { [resp |-> [kind |-> "response", status |-> "200 OK", body |-> Zip(a)],
       fault |-> [at |-> "none"]] :
         a \in { <<Entry(<<"a", "/", "t">>, <<0>>)>>,
                 <<Entry(<<"a", "/", "t">>, <<1>>)>>,
                 <<Entry(<<"a", "/", "x">>, <<0>>), Entry(<<"t">>, <<1>>)>> } }
    \cup { [resp |-> [kind |-> "send_failed"], fault |-> [at |-> "none"]],
           [resp |-> [kind |-> "response", status |-> "200 OK",
                      body |-> Zip(<<Entry(<<"a", "/", "t">>, <<1>>)>>)],
            fault |-> [at |-> "write", written |-> 0]] }

\* the body of the loops with the download made without a token when no credential
\* is found
fetch_all_step_anonymous(source, art, ls, world, dir, fs) ==
    LET login == find_login(ls, source.url) IN
    get_artifact(art, IF login = None THEN "" ELSE login.val.password, None,
                 world.resp, world.fault, dir, fs)
    @@ [lookups |-> <<source.url>>]

\* the body of the loops with a download that failed to send tried once more
fetch_all_step_retrying(source, art, ls, world, dir, fs) ==
    LET login == find_login(ls, source.url)
        s == get_artifact(art, login.val.password, None, world.resp, world.fault, dir, fs)
    IN
    IF login = None
    THEN Untouched(dir, fs)
         @@ [ret |-> Err("NoLogin", source.url), lookups |-> <<source.url>>]
    ELSE IF s.ret.tag = "Err" /\ s.ret.kind = "SourceRequestError"
    THEN [s EXCEPT !.requests = @ \o @] @@ [lookups |-> <<source.url>>]
    ELSE s @@ [lookups |-> <<source.url>>]

\* the body of the loops of fetch_all for one artifact: the credential looked up,
\* then get_artifact with no build id
fetch_all_step(source, art, ls, world, dir, fs) ==
    LET login == find_login(ls, source.url) IN
    IF login = None
    THEN Untouched(dir, fs)
         @@ [ret |-> Err("NoLogin", source.url), lookups |-> <<source.url>>]
    ELSE get_artifact(art, login.val.password, None, world.resp, world.fault, dir, fs)
         @@ [lookups |-> <<source.url>>]

\* what one pass of the loop did, with the artifact it was for
Pass(pair, s) ==
    [art_id |-> pair.artifact.id, source_id |-> pair.source.id, ret |-> s.ret,
     lookups |-> s.lookups, requests |-> s.requests, writes |-> s.writes,
     file_data |-> s.file_data, stored_before |-> s.stored_before, files |-> s.files]

\* the passes wrote to the file n
written_by(passes, n) == \E k \in 1..Len(passes) : passes[k].writes = <<n>>

\* fetch_all removing the files its earlier passes wrote when a pass fails
RECURSIVE fetch_all_cleaning_up(_, _, _, _, _, _, _, _)
fetch_all_cleaning_up(pairs, ls, worlds, k, answers, passes, dir, fs) ==
    IF k > Len(pairs)
    THEN [ret |-> Ok(answers), passes |-> passes, dirExists |-> dir, files |-> fs]
    ELSE LET s == fetch_all_step(pairs[k].source, pairs[k].artifact, ls, worlds[k],
                                 dir, fs)
             done == Append(passes, Pass(pairs[k], s))
         IN  IF s.ret.tag # "Ok"
             THEN [ret |-> s.ret, passes |-> done, dirExists |-> s.dirExists,
                   files |-> [n \in DOMAIN s.files |->
                                 IF written_by(passes, n) THEN None ELSE s.files[n]]]
             ELSE fetch_all_cleaning_up(pairs, ls, worlds, k + 1,
                                        Append(answers, <<pairs[k].artifact.id, s.ret.val>>),
                                        done, s.dirExists, s.files)

\* fetch_all going on to the later artifacts after an error, the first error returned
\* at the end
RECURSIVE fetch_all_collecting(_, _, _, _, _, _, _, _)
fetch_all_collecting(pairs, ls, worlds, k, answers, passes, dir, fs) ==
    IF k > Len(pairs)
    THEN [ret |-> Ok(answers), passes |-> passes, dirExists |-> dir, files |-> fs]
    ELSE LET s == fetch_all_step(pairs[k].source, pairs[k].artifact, ls, worlds[k],
                                 dir, fs)
             done == Append(passes, Pass(pairs[k], s))
         IN  IF s.ret.tag # "Ok"
             THEN [fetch_all_collecting(pairs, ls, worlds, k + 1, answers, done,
                                        s.dirExists, s.files) EXCEPT !.ret = s.ret]
             ELSE fetch_all_collecting(pairs, ls, worlds, k + 1,
                                       Append(answers, <<pairs[k].artifact.id, s.ret.val>>),
                                       done, s.dirExists, s.files)

\* fetch_all with each answer put in front of the earlier ones
RECURSIVE fetch_all_prepending(_, _, _, _, _, _, _, _)
fetch_all_prepending(pairs, ls, worlds, k, answers, passes, dir, fs) ==
    IF k > Len(pairs)
    THEN [ret |-> Ok(answers), passes |-> passes, dirExists |-> dir, files |-> fs]
    ELSE LET s == fetch_all_step(pairs[k].source, pairs[k].artifact, ls, worlds[k],
                                 dir, fs)
             done == Append(passes, Pass(pairs[k], s))
         IN  IF s.ret.tag # "Ok"
             THEN [ret |-> s.ret, passes |-> done, dirExists |-> s.dirExists,
                   files |-> s.files]
             ELSE fetch_all_prepending(pairs, ls, worlds, k + 1,
                                       <<<<pairs[k].artifact.id, s.ret.val>>>> \o answers,
                                       done, s.dirExists, s.files)

\* fetch_all from the k-th artifact on: an error ends it, an answer is pushed
RECURSIVE fetch_all_from(_, _, _, _, _, _, _, _)
fetch_all_from(pairs, ls, worlds, k, answers, passes, dir, fs) ==
    IF k > Len(pairs)
    THEN [ret |-> Ok(answers), passes |-> passes, dirExists |-> dir, files |-> fs]
    ELSE LET s == fetch_all_step(pairs[k].source, pairs[k].artifact, ls, worlds[k],
                                 dir, fs)
             done == Append(passes, Pass(pairs[k], s))
         IN  IF s.ret.tag # "Ok"
             THEN [ret |-> s.ret, passes |-> done, dirExists |-> s.dirExists,
                   files |-> s.files]
             ELSE fetch_all_from(pairs, ls, worlds, k + 1,
                                 Append(answers, <<pairs[k].artifact.id, s.ret.val>>),
                                 done, s.dirExists, s.files)

\* fetch_all
fetch_all(cfg, ls, worlds, dir, fs) ==
    fetch_all_from(artifacts_in_order(cfg.sources, 1), ls, worlds, 1, <<>>, <<>>, dir, fs)

----------------------------------------------------------------------------
(* Variables a specification does not use keep these values *)

NoOp == [op |-> "none"]
IdleExtract == xin = NoOp /\ xout = NoOp
IdleFetch ==
    /\ config = NoOp
    /\ dirExists = FALSE
    /\ files = NoFiles
    /\ last = NoOp

----------------------------------------------------------------------------
(* SpecLogins: lookups and updates of a loaded credential store *)

\* any store a store file can have held when it was loaded; the file itself plays
\* no part in lookups and updates
InitLogins ==
    /\ logins \in Stores
    /\ authFile = FileAbsent
    /\ lop = NoOp
    /\ IdleExtract
    /\ IdleFetch

\* a caller resolving the credential of a URL
FindLogin ==
    \E url \in QueryUrls :
        /\ lop' = [op |-> "find_login", url |-> url, ret |-> find_login(logins, url)]
        /\ UNCHANGED <<logins, authFile, extractVars, fetchVars>>

\* commands/auth.rs auth: the prompted login is set in the store
Auth ==
    \E login \in Login :
        /\ Len(logins) < MaxLogins \/ \E i \in 1..Len(logins) : logins[i].url = login.url
        /\ LET r == set_login(logins, login) IN
           /\ logins' = r.logins
           /\ lop' = [op |-> "set_login", login |-> login, ret |-> r.ret, before |-> logins]
        /\ UNCHANGED <<authFile, extractVars, fetchVars>>

NextLogins == FindLogin \/ Auth

SpecLogins == InitLogins /\ [][NextLogins]_vars

----------------------------------------------------------------------------
(* SpecAuth: a store that only set_login has filled *)

\* Logins::default(): the store before the first auth command
InitAuth ==
    /\ logins = <<>>
    /\ authFile = FileAbsent
    /\ lop = NoOp
    /\ IdleExtract
    /\ IdleFetch

SpecAuth == InitAuth /\ [][NextLogins]_vars

----------------------------------------------------------------------------
(* SpecLoad: loading and saving the store file *)

InitLoad ==
    /\ authFile \in FileStates
    /\ logins = <<>>
    /\ lop = NoOp
    /\ IdleExtract
    /\ IdleFetch

\* the store is read with read_logins_file; an error ends the run, the store is not replaced
Load ==
    LET r == read_logins_file(authFile) IN
    /\ logins' = IF r.tag = "Ok" THEN r.val ELSE logins
    /\ lop' = [op |-> "read_logins_file", file |-> authFile, ret |-> r]
    /\ UNCHANGED <<authFile, extractVars, fetchVars>>

\* the store is read with read_auth_file
LoadAuth ==
    LET r == read_auth_file(authFile) IN
    /\ logins' = IF r.tag = "Ok" THEN r.val ELSE logins
    /\ lop' = [op |-> "read_auth_file", file |-> authFile, ret |-> r]
    /\ UNCHANGED <<authFile, extractVars, fetchVars>>

\* the store is written back, replacing the file
Save ==
    /\ authFile' = save_logins_file(authFile, logins)
    /\ lop' = [op |-> "save_logins_file", file |-> authFile, ret |-> Ok(<<>>)]
    /\ UNCHANGED <<logins, extractVars, fetchVars>>

\* the user removes the store file
FileRemoved ==
    /\ authFile # FileAbsent
    /\ authFile' = FileAbsent
    /\ lop' = NoOp
    /\ UNCHANGED <<logins, extractVars, fetchVars>>

NextLoad == Load \/ LoadAuth \/ Save \/ FileRemoved

SpecLoad == InitLoad /\ [][NextLoad]_vars

----------------------------------------------------------------------------
(* Claims on the credential store *)

\* the records of the store whose URL is a textual prefix of url
Matching(ls, url) == {i \in 1..Len(ls) : starts_with(url, ls[i].url)}

\* C1: the credential find_login returns has a URL that is a prefix of the query and
\* that is the longest among the stored URLs that are prefixes of the query.
C1_LongestPrefix ==
    (lop.op = "find_login" /\ lop.ret.tag = "Some") =>
        /\ starts_with(lop.url, lop.ret.val.url)
        /\ \A i \in Matching(logins, lop.url) :
               Len(logins[i].url) <= Len(lop.ret.val.url)

\* C2: find_login returns none exactly when no stored URL is a prefix of the query,
\* the empty query included, and a returned credential's URL is a prefix of the query.
C2_NoneIffNoPrefix ==
    lop.op = "find_login" =>
        /\ (lop.ret = None) <=> (Matching(logins, lop.url) = {})
        /\ lop.ret.tag = "Some" => starts_with(lop.url, lop.ret.val.url)

\* C3: set_login replaces a record of the same URL in place and returns the old
\* record, the size and every other position unchanged; otherwise it appends, returns
\* none, the size grows by one and the earlier records are unchanged.
C3_SetLogin ==
    lop.op = "set_login" =>
        LET b == lop.before
            l == lop.login
        IN  IF \E i \in 1..Len(b) : b[i].url = l.url
            THEN /\ Len(logins) = Len(b)
                 /\ \E i \in 1..Len(b) :
                       /\ b[i].url = l.url
                       /\ logins[i] = l
                       /\ lop.ret = Some(b[i])
                       /\ \A j \in 1..Len(b) : j # i => logins[j] = b[j]
            ELSE /\ Len(logins) = Len(b) + 1
                 /\ logins[Len(logins)] = l
                 /\ lop.ret = None
                 /\ \A j \in 1..Len(b) : logins[j] = b[j]

\* a record other than the last was replaced by a different one
C3_Witness ==
    /\ lop.op = "set_login"
    /\ lop.ret.tag = "Some"
    /\ lop.ret.val # lop.login
    /\ Len(lop.before) >= 2
    /\ lop.before[Len(lop.before)].url # lop.login.url

\* C4: loading the store when its file does not exist succeeds with an empty store,
\* in which no URL finds a credential.
C4_MissingFileLoadsEmpty ==
    (lop.op \in {"read_logins_file", "read_auth_file"} /\ lop.file = FileAbsent) =>
        /\ lop.ret = Ok(<<>>)
        /\ logins = <<>>
        /\ \A url \in QueryUrls : find_login(logins, url) = None

----------------------------------------------------------------------------
(* SpecExtract: the extraction applied to every buffer and pattern of the bounds *)

InitExtract ==
    /\ xin \in [buffer : Buffers, pattern : Patterns]
    /\ xout = NoOp
    /\ logins = <<>>
    /\ authFile = FileAbsent
    /\ lop = NoOp
    /\ IdleFetch

Extract ==
    /\ xout = NoOp
    /\ xout' = extract_matching(xin.buffer, xin.pattern)
    /\ UNCHANGED <<xin, loginVars, fetchVars>>

NextExtract == Extract

SpecExtract == InitExtract /\ [][NextExtract]_vars

----------------------------------------------------------------------------
(* Claims on the extraction *)

\* the entries of archive a whose name ends with the pattern
MatchingEntries(a, pattern) == {i \in 1..Len(a) : ends_with(a[i].name, pattern)}

SetMax(S) == CHOOSE m \in S : \A k \in S : k <= m

\* C5: when entries end with the pattern, the last of them in enumeration order is
\* the one selected, and the bytes returned are that entry's content.
C5_LastMatchWins ==
    (xout # NoOp /\ xin.buffer.kind = "zip"
        /\ MatchingEntries(xin.buffer.entries, xin.pattern) # {}) =>
        LET a == xin.buffer.entries
            e == a[SetMax(MatchingEntries(a, xin.pattern))]
        IN  /\ xout.found_jar = Some(e.name)
            /\ xout.ret # Ok(None)
            /\ xout.ret.tag = "Ok" => xout.ret.val.val.data = e.data
            /\ (e.readable /\ xout.ret.tag # "Panic") => xout.ret.tag = "Ok"

\* two entries match, their contents differ, and the extraction returned bytes
C5_Witness ==
    /\ xout # NoOp
    /\ xin.buffer.kind = "zip"
    /\ xout.ret.tag = "Ok"
    /\ LET a == xin.buffer.entries
           m == MatchingEntries(a, xin.pattern)
       IN  /\ Cardinality(m) >= 2
           /\ \E i \in m : i # SetMax(m) /\ a[i].readable /\ a[i].data # a[SetMax(m)].data

----------------------------------------------------------------------------
(* SpecFetch: fetches of single artifacts into the output directory *)

InitFetch ==
    /\ config \in Configs
    /\ logins \in FetchStores
    /\ authFile = FileAbsent
    /\ lop = NoOp
    /\ dirExists = FALSE
    /\ files = NoFiles
    /\ last = NoOp
    /\ IdleExtract

\* what the remote did with the request of a download, none when no request was sent
response_received(requests, resp) == IF requests # <<>> THEN Some(resp) ELSE None

\* fetch with an artifact id: fetch_single, then the answer is printed
FetchSingle ==
    \E args \in FetchArgs, resp \in Responses, fault \in Faults :
        \E r \in {fetch_single(config, logins, args.art_id, args.build_id, resp, fault,
                                dirExists, files)} :
            /\ dirExists' = r.dirExists
            /\ files' = r.files
            /\ last' = [op |-> "fetch_single", art_id |-> args.art_id,
                        build_id |-> args.build_id, ret |-> r.ret, lookups |-> r.lookups,
                        requests |-> r.requests, writes |-> r.writes, body |-> r.body,
                        found_jar |-> r.found_jar, file_data |-> r.file_data,
                        stored_before |-> r.stored_before,
                        response |-> response_received(r.requests, resp)]
            /\ UNCHANGED <<config, loginVars, extractVars>>

\* fetch with no artifact id: fetch_all, then the answers are printed
FetchAll ==
    LET n == Len(artifacts_in_order(config.sources, 1)) IN
    \E worlds \in [1..n -> Worlds] :
        \E r \in {fetch_all(config, logins, worlds, dirExists, files)} :
            /\ dirExists' = r.dirExists
            /\ files' = r.files
            /\ last' = [op |-> "fetch_all", ret |-> r.ret, passes |-> r.passes]
            /\ UNCHANGED <<config, loginVars, extractVars>>

NextFetch == FetchSingle \/ FetchAll

SpecFetch == InitFetch /\ [][NextFetch]_vars

----------------------------------------------------------------------------
(* Claims on the fetch *)

\* seg is the final path segment of name: it has no separator, it stands after a
\* separator or at the start, and only separators follow it
IsFinalSegment(name, seg) ==
    \E i \in 1..Len(name) : \E j \in i..Len(name) :
        /\ SubSeq(name, i, j) = seg
        /\ \A k \in i..j : name[k] # "/"
        /\ i = 1 \/ name[i - 1] = "/"
        /\ \A k \in (j + 1)..Len(name) : name[k] = "/"

\* the fetch f ended with an answer about an extracted file
Extracted(f) == f.op = "fetch_single" /\ f.ret.tag = "Ok" /\ f.file_data # None

\* C6: the file name of an extracted file is the final path segment of the matched
\* entry's name, the answer carries that name, and a new artifact is written in the
\* output directory under exactly that name.
C6_OutputName ==
    (last.op = "fetch_single" /\ last.file_data # None) =>
        LET fd == last.file_data.val IN
        /\ last.found_jar # None
        /\ IsFinalSegment(last.found_jar.val, fd.file_name)
        /\ last.ret.tag = "Ok" => last.ret.val.name = fd.file_name
        /\ last.ret = Ok(NewArtifact(fd.file_name)) =>
              /\ last.writes = <<fd.file_name>>
              /\ files[fd.file_name] = Some(fd.data)

\* an entry in a directory was extracted and stored under its final segment
C6_Witness ==
    /\ Extracted(last)
    /\ last.ret.val.answer = "NewArtifact"
    /\ Len(last.found_jar.val) > Len(last.file_data.val.file_name)
    /\ files[last.file_data.val.file_name] = Some(last.file_data.val.data)

\* one step from the fetch before (last) to the fetch of this step (last'), the
\* output directory before the step being files
C7_Step ==
    /\ (Extracted(last') /\ files[last'.file_data.val.file_name] = None) =>
          last'.ret = Ok(NewArtifact(last'.file_data.val.file_name))
    /\ (Extracted(last) /\ Extracted(last') /\ last'.art_id = last.art_id
            /\ last'.body = last.body) =>
          last'.ret = Ok(UpToDate(last'.file_data.val.file_name))
    /\ (Extracted(last) /\ Extracted(last') /\ last'.art_id = last.art_id
            /\ last'.file_data.val.file_name = last.file_data.val.file_name
            /\ last'.file_data.val.data # last.file_data.val.data) =>
          last'.ret = Ok(NewArtifact(last'.file_data.val.file_name))

\* C7: with no stored file of the name a fetch answers NewArtifact; the next fetch of
\* the same artifact with the same remote content answers UpToDate; the next fetch of
\* the same artifact with changed content of that file answers NewArtifact again.
C7_NewThenUpToDate == [][C7_Step]_vars

\* a fetch found the file stored by an earlier fetch changed on the remote and
\* answered NewArtifact again
C7_Witness ==
    /\ Extracted(last)
    /\ last.ret.val.answer = "NewArtifact"
    /\ last.stored_before # None
    /\ last.stored_before.val # last.file_data.val.data
    /\ Len(last.stored_before.val) = Len(last.file_data.val.data)

\* a step whose fetch answers UpToDate
C8_Step ==
    (last'.op = "fetch_single" /\ last'.ret.tag = "Ok"
        /\ last'.ret.val.answer = "UpToDate") =>
        /\ last'.writes = <<>>
        /\ files' = files
        /\ dirExists' = dirExists

\* C8: a fetch that answers UpToDate writes nothing: the output directory is after
\* the fetch what it was before.
C8_UpToDateWritesNothing == [][C8_Step]_vars

\* a fetch answered UpToDate
C8_Witness ==
    /\ Extracted(last)
    /\ last.ret.val.answer = "UpToDate"
    /\ last.stored_before = Some(last.file_data.val.data)

\* C9: a fetch that extracted a file answers NewArtifact exactly when no file of the
\* name is stored or the stored content differs from the extracted bytes, and after
\* NewArtifact the stored file holds exactly the extracted bytes.
C9_NewIffAbsentOrDifferent ==
    Extracted(last) =>
        LET fd == last.file_data.val IN
        /\ (last.ret = Ok(NewArtifact(fd.file_name)))
              <=> (last.stored_before = None \/ last.stored_before.val # fd.data)
        /\ (last.ret # Ok(NewArtifact(fd.file_name)))
              => last.ret = Ok(UpToDate(fd.file_name))
        /\ (last.ret = Ok(NewArtifact(fd.file_name)))
              => files[fd.file_name] = Some(fd.data)

\* a stored file of another length was overwritten
C9_Witness ==
    /\ Extracted(last)
    /\ last.ret.val.answer = "NewArtifact"
    /\ last.stored_before # None
    /\ Len(last.stored_before.val) > Len(last.file_data.val.data)
    /\ files[last.file_data.val.file_name] = Some(last.file_data.val.data)

\* no source of the configuration has an artifact with the id
Unconfigured(art_id) ==
    \A i \in 1..Len(config.sources) :
        \A j \in 1..Len(config.sources[i].artifacts) :
            config.sources[i].artifacts[j].id # art_id

\* a step whose fetch asks for an id that is not configured
C10_Step ==
    (last'.op = "fetch_single" /\ Unconfigured(last'.art_id)) =>
        /\ last'.ret = Err("NoSuchArtifact", last'.art_id)
        /\ last'.requests = <<>>
        /\ last'.lookups = <<>>
        /\ last'.writes = <<>>
        /\ files' = files
        /\ dirExists' = dirExists

\* C10: fetch_single with an id no source contains fails with NoSuchArtifact, issues
\* no remote call, does not consult the credential store and writes no file.
C10_UnknownArtifact == [][C10_Step]_vars

\* an unknown id was asked for while the output directory held a file
C10_Witness ==
    /\ last.op = "fetch_single"
    /\ last.ret = Err("NoSuchArtifact", "nope")
    /\ dirExists
    /\ \E n \in OutNames : files[n] # None

----------------------------------------------------------------------------
(* SpecAdd: artifacts added to the sources of the configuration file *)

\* the most artifacts a source is given
MaxArtifacts == 2

\* the source ids given on the command line, and the answers typed at the prompts
SourceArgs == {"gitlab", "team", "nope"}
ProjectArgs == {"101", "102"}
IdAnswers == {"svc", "lib"}
BranchAnswers == {"main"}
PatternAnswers == {<<"t">>}

\* the position of the first source with the id, 0 when there is none
RECURSIVE source_with_id(_, _, _)
source_with_id(sources, id, i) ==
    IF i > Len(sources) THEN 0
    ELSE IF sources[i].id = id THEN i
    ELSE source_with_id(sources, id, i + 1)

\* Commands::Add: the artifact is pushed to the source of a copy of the configuration
\* and the copy is written to the configuration file
add(cfg, source, project_id, id, branch, artifact_pattern, written) ==
    LET i == source_with_id(cfg.sources, source, 1) IN
    IF i = 0 THEN [ret |-> Err("NoSuchSource", source), config |-> cfg]
    ELSE LET art == ArtifactConfig(id, project_id, branch, artifact_pattern)
             new_config == [cfg EXCEPT !.sources[i].artifacts = Append(@, art)]
         IN  IF written THEN [ret |-> Ok("()"), config |-> new_config]
             ELSE [ret |-> Err("IOError", "Failed to write new config file"),
                   config |-> cfg]

\* a configuration file in which the ids are unique within each source
InitAdd ==
    /\ config = [sources |-> <<SourceConfig("team", ExampleTeam, <<>>),
                               SourceConfig("gitlab", GitlabCom, <<ArtSvc>>)>>]
    /\ logins = <<>>
    /\ authFile = FileAbsent
    /\ lop = NoOp
    /\ dirExists = FALSE
    /\ files = NoFiles
    /\ last = NoOp
    /\ IdleExtract

\* erd add <source> <project_id>
Add ==
    \E source \in SourceArgs, project_id \in ProjectArgs, id \in IdAnswers,
       branch \in BranchAnswers, artifact_pattern \in PatternAnswers,
       written \in BOOLEAN :
        /\ \A i \in 1..Len(config.sources) :
              config.sources[i].id = source
                  => Len(config.sources[i].artifacts) < MaxArtifacts
        /\ \E r \in {add(config, source, project_id, id, branch, artifact_pattern,
                          written)} :
              /\ config' = r.config
              /\ last' = [op |-> "add", source |-> source, id |-> id, ret |-> r.ret]
        /\ UNCHANGED <<loginVars, extractVars, dirExists, files>>

NextAdd == Add

SpecAdd == InitAdd /\ [][NextAdd]_vars

\* C17: artifact identifiers stay unique within their source: from a configuration
\* in which they are unique, no sequence of add operations leads to a source with two
\* artifacts of the same identifier.
C17_IdsUniqueInSource ==
    \A i \in 1..Len(config.sources) :
        \A j1, j2 \in 1..Len(config.sources[i].artifacts) :
            j1 # j2 => config.sources[i].artifacts[j1].id # config.sources[i].artifacts[j2].id

----------------------------------------------------------------------------
(* SpecRebuild: pipelines started for an artifact *)

\* struct JobPipeline and struct JobHistory as far as the rebuild reads them
JobPipeline(id, job_ref) == [id |-> id, job_ref |-> job_ref]
JobHistory(id, name) == [id |-> id, name |-> name]

\* the body of a response: JSON of one of the two shapes, or something else
Json(shape, value) == [shape |-> shape, value |-> value]
ErrorBody == Json("message", "error")

\* the ids the remote gives to new pipelines: one that no project has, and one that
\* is also the id of a project
PipelineIds == {"9001", "101"}

\* the refs given on the command line, and the token the caller passes
RebuildRefs == {"main", "dev"}
RebuildTokens == {"tok1", BadToken}

\* what the remote answers to the creation of a pipeline for ref
CreateResponses(ref) ==
    {[kind |-> "send_failed"]}
    \cup {[kind |-> "response", status |-> "201 Created",
           body |-> Json("JobPipeline", JobPipeline(id, ref))] : id \in PipelineIds}
    \cup {[kind |-> "response", status |-> "400 Bad Request", body |-> ErrorBody]}

\* what the remote answers to the second call
ListResponses ==
    {[kind |-> "send_failed"]}
    \cup {[kind |-> "response", status |-> "200 OK", body |-> Json("Vec<JobHistory>", jobs)] :
             jobs \in {<<>>, <<JobHistory("55", "build")>>,
                       <<JobHistory("55", "build"), JobHistory("56", "test")>>}}
    \cup {[kind |-> "response", status |-> "404 Not Found", body |-> ErrorBody]}

\* deserialize_response::<T>: the value when the body is JSON of shape T
deserialize_response(resp, url, shape) ==
    IF resp.body.shape = shape THEN Ok(resp.body.value)
    ELSE Err("SourceRequestError", url)

\* rebuild_artifact_gitlab: the requests sent and the value returned
rebuild_artifact_gitlab(artifact, token, build_id, create_resp, list_resp) ==
    LET token_value == get_token_value(token)
        create_pipeline_url ==
            <<"https://gitlab.com/", "api/v4/projects/", artifact.project_id, "/pipeline">>
        create == [Request("POST", create_pipeline_url, token) EXCEPT
                       !.url = @ \o <<"?ref=", build_id>>]
    IN
    IF token_value.tag = "Err" THEN [requests |-> <<>>, ret |-> token_value]
    ELSE IF create_resp.kind = "send_failed"
    THEN [requests |-> <<create>>, ret |-> Err("SourceRequestError", create_pipeline_url)]
    ELSE
    LET new_pipeline == deserialize_response(create_resp, create_pipeline_url, "JobPipeline")
    IN
    IF new_pipeline.tag = "Err" THEN [requests |-> <<create>>, ret |-> new_pipeline]
    ELSE
    LET list_jobs_url ==
            <<"https://gitlab.com/", "api/v4/projects/", new_pipeline.val.id, "/pipeline">>
        list == Request("GET", list_jobs_url, token)
    IN
    IF list_resp.kind = "send_failed"
    THEN [requests |-> <<create, list>>, ret |-> Err("SourceRequestError", list_jobs_url)]
    ELSE
    LET pipeline_jobs == deserialize_response(list_resp, list_jobs_url, "Vec<JobHistory>")
    IN
    IF pipeline_jobs.tag = "Err" THEN [requests |-> <<create, list>>, ret |-> pipeline_jobs]
    ELSE [requests |-> <<create, list>>, ret |-> Ok("()")]

\* Commands::Rebuild: the artifact is located, then rebuild_artifact
rebuild(cfg, art_id, token, build_id, create_resp, list_resp) ==
    LET found == find_source_artifact(cfg.sources, art_id, 1) IN
    IF found = None
    THEN [requests |-> <<>>, ret |-> Err("NoSuchArtifact", art_id)]
    ELSE rebuild_artifact_gitlab(found.val.artifact, token, build_id, create_resp,
                                 list_resp)

InitRebuild ==
    /\ config \in Configs
    /\ logins = <<>>
    /\ authFile = FileAbsent
    /\ lop = NoOp
    /\ dirExists = FALSE
    /\ files = NoFiles
    /\ last = NoOp
    /\ IdleExtract

\* erd rebuild <artifact> <build_id>
Rebuild ==
    \E art_id \in {"svc", "lib", "nope"}, build_id \in RebuildRefs,
       token \in RebuildTokens, list_resp \in ListResponses :
        \E create_resp \in CreateResponses(build_id) :
            \E r \in {rebuild(config, art_id, token, build_id, create_resp, list_resp)} :
                /\ last' = [op |-> "rebuild", art_id |-> art_id, build_id |-> build_id,
                            ret |-> r.ret, requests |-> r.requests,
                            created |-> IF Len(r.requests) >= 1 THEN Some(create_resp)
                                        ELSE None,
                            listed |-> IF Len(r.requests) >= 2 THEN Some(list_resp)
                                       ELSE None]
                /\ UNCHANGED <<config, loginVars, extractVars, dirExists, files>>

NextRebuild == Rebuild

SpecRebuild == InitRebuild /\ [][NextRebuild]_vars

\* the remote created the pipeline and said so
Created(response) ==
    /\ response # None
    /\ response.val.kind = "response"
    /\ response.val.body.shape = "JobPipeline"

\* C20: a rebuild first creates a pipeline for the ref in the project of the artifact
\* and only after that call succeeded lists jobs; the listing is addressed to the jobs
\* of the new pipeline, named by the project id of the artifact and the id of the new
\* pipeline; when the creation fails no listing call is made.
C20_CreateThenListJobs ==
    (last.op = "rebuild" /\ last.requests # <<>>) =>
        LET artifact == find_source_artifact(config.sources, last.art_id, 1).val.artifact
            create == last.requests[1]
        IN  /\ create.method = "POST"
            /\ create.url[3] = artifact.project_id
            /\ create.url[Len(create.url)] = last.build_id
            /\ ~Created(last.created) => Len(last.requests) = 1
            /\ Created(last.created) =>
                  /\ Len(last.requests) = 2
                  /\ last.requests[2].method = "GET"
                  /\ last.requests[2].url[3] = artifact.project_id
                  /\ \E p \in 4..Len(last.requests[2].url) :
                        last.requests[2].url[p] = last.created.val.body.value.id

----------------------------------------------------------------------------
(* SpecHistory: the job history of an artifact shown *)

\* the most job records a response carries
MaxJobs == 2

\* const job_name of get_history_gitlab
job_name == "build"

\* the job records the remote can return
Jobs == {JobHistory("1", "build"), JobHistory("2", "test"), JobHistory("3", "build")}

\* the sequences of up to n records
RECURSIVE JobLists(_)
JobLists(n) ==
    IF n = 0 THEN {<<>>}
    ELSE JobLists(n - 1)
         \cup {Append(l, j) : l \in {m \in JobLists(n - 1) : Len(m) = n - 1}, j \in Jobs}

\* what the remote answers to the job listing
HistoryResponses ==
    {[kind |-> "send_failed"]}
    \cup {[kind |-> "response", status |-> "200 OK", body |-> Json("Vec<JobHistory>", jobs)] :
             jobs \in JobLists(MaxJobs)}
    \cup {[kind |-> "response", status |-> "404 Not Found", body |-> ErrorBody]}

\* a job record formatted and logged: the form, and the record the line is made from
Shown(short, job) == [short |-> short, id |-> job.id, name |-> job.name]

\* show_history_long: the job lines logged, from record i on
RECURSIVE show_history_long(_, _)
show_history_long(job_history, i) ==
    IF i > Len(job_history) THEN <<>>
    ELSE <<Shown(FALSE, job_history[i])>> \o show_history_long(job_history, i + 1)

\* show_history_short with every record shown
RECURSIVE show_history_short_unfiltered(_, _)
show_history_short_unfiltered(job_history, i) ==
    IF i > Len(job_history) THEN <<>>
    ELSE <<Shown(TRUE, job_history[i])>>
         \o show_history_short_unfiltered(job_history, i + 1)

\* show_history_short: the job lines logged, from record i on
RECURSIVE show_history_short(_, _)
show_history_short(job_history, i) ==
    IF i > Len(job_history) THEN <<>>
    ELSE IF job_history[i].name # job_name THEN show_history_short(job_history, i + 1)
    ELSE <<Shown(TRUE, job_history[i])>> \o show_history_short(job_history, i + 1)

\* get_history_gitlab: the request sent, the job lines logged and the value returned
get_history_gitlab(artifact, token, short, resp) ==
    LET token_value == get_token_value(token)
        url == <<"https://gitlab.com/", "api/v4/projects/", artifact.project_id, "/jobs">>
        get == [Request("GET", url, token) EXCEPT
                    !.url = @ \o <<"?order_by=updated_at", "&ref=", artifact.branch,
                                    "&name=", job_name, "&per_page=6">>]
    IN
    IF token_value.tag = "Err" THEN [requests |-> <<>>, shown |-> <<>>, ret |-> token_value]
    ELSE IF resp.kind = "send_failed"
    THEN [requests |-> <<get>>, shown |-> <<>>, ret |-> Err("SourceRequestError", url)]
    ELSE
    LET job_history == deserialize_response(resp, url, "Vec<JobHistory>") IN
    IF job_history.tag = "Err"
    THEN [requests |-> <<get>>, shown |-> <<>>, ret |-> job_history]
    ELSE [requests |-> <<get>>,
          shown |-> IF short THEN show_history_short(job_history.val, 1)
                    ELSE show_history_long(job_history.val, 1),
          ret |-> Ok("()")]

\* Commands::History: the artifact is located, then get_history
history(cfg, art_id, token, short, resp) ==
    LET found == find_source_artifact(cfg.sources, art_id, 1) IN
    IF found = None
    THEN [requests |-> <<>>, shown |-> <<>>, ret |-> Err("NoSuchArtifact", art_id)]
    ELSE get_history_gitlab(found.val.artifact, token, short, resp)

InitHistory ==
    /\ config \in Configs
    /\ logins = <<>>
    /\ authFile = FileAbsent
    /\ lop = NoOp
    /\ dirExists = FALSE
    /\ files = NoFiles
    /\ last = NoOp
    /\ IdleExtract

\* erd history <artifact> [--short]
History ==
    \E art_id \in {"svc", "lib", "nope"}, short \in BOOLEAN, token \in RebuildTokens,
       resp \in HistoryResponses :
        \E r \in {history(config, art_id, token, short, resp)} :
            /\ last' = [op |-> "history", art_id |-> art_id, short |-> short,
                        ret |-> r.ret, requests |-> r.requests, shown |-> r.shown,
                        listed |-> IF r.requests # <<>> THEN Some(resp) ELSE None]
            /\ UNCHANGED <<config, loginVars, extractVars, dirExists, files>>

NextHistory == History

SpecHistory == InitHistory /\ [][NextHistory]_vars

\* the record is one of the fixed job name
IsBuildJob(job) == job.name = "build"

\* C21: the short rendering shows only the returned job records whose name is the
\* fixed job name 'build', the long rendering shows every returned record, and both
\* keep the order in which the remote returned them.
C21_ShortFiltersLongDoesNot ==
    (last.op = "history" /\ last.ret.tag = "Ok") =>
        LET returned == last.listed.val.body.value
            expected == IF last.short THEN SelectSeq(returned, IsBuildJob) ELSE returned
        IN  /\ Len(last.shown) = Len(expected)
            /\ \A i \in 1..Len(expected) :
                  /\ last.shown[i].id = expected[i].id
                  /\ last.shown[i].name = expected[i].name
                  /\ last.shown[i].short = last.short

\* the short rendering left out a record that was not a build job and showed the
\* one after it
C21_Witness ==
    /\ last.op = "history"
    /\ last.ret.tag = "Ok"
    /\ last.short
    /\ Len(last.listed.val.body.value) = 2
    /\ last.listed.val.body.value[1].name = "test"
    /\ Len(last.shown) = 1
    /\ last.shown[1].id = last.listed.val.body.value[2].id

----------------------------------------------------------------------------
(* Claims on fetch_all and on the remote calls of a fetch *)

\* the (source, artifact) pairs of the configuration in configuration order
ConfiguredPairs == artifacts_in_order(config.sources, 1)

\* no credential of the store has a URL that is a prefix of url
NoCredentialFor(url) == \A i \in 1..Len(logins) : ~starts_with(url, logins[i].url)

\* C11: in fetch_single and in fetch_all, when no credential of the store matches the
\* URL of the artifact's source, the operation fails with NoLogin carrying that URL
\* and no remote call is issued for that artifact.
C11_NoLogin ==
    /\ last.op = "fetch_single" =>
          LET found == find_source_artifact(config.sources, last.art_id, 1) IN
          (found # None /\ NoCredentialFor(found.val.source.url)) =>
              /\ last.ret = Err("NoLogin", found.val.source.url)
              /\ last.requests = <<>>
    /\ last.op = "fetch_all" =>
          \A k \in 1..Len(last.passes) :
              NoCredentialFor(ConfiguredPairs[k].source.url) =>
                  /\ last.passes[k].ret = Err("NoLogin", ConfiguredPairs[k].source.url)
                  /\ last.passes[k].requests = <<>>
                  /\ k = Len(last.passes)
                  /\ last.ret = last.passes[k].ret

\* fetch_all downloaded for one source and then found no credential for the next
C11_Witness ==
    /\ last.op = "fetch_all"
    /\ Len(last.passes) = 2
    /\ last.passes[1].requests # <<>>
    /\ last.ret = Err("NoLogin", GitlabCom)
    /\ logins # <<>>
    /\ last.passes[2].requests = <<>>

\* the number of artifacts of the sources before the i-th
RECURSIVE ArtifactsBefore(_)
ArtifactsBefore(i) ==
    IF i <= 1 THEN 0 ELSE ArtifactsBefore(i - 1) + Len(config.sources[i - 1].artifacts)

\* the project the k-th pass of a fetch_all sent its download to
PassProject(k) == last.passes[k].requests[1].url[3]

\* C12: when fetch_all succeeds, its result holds exactly one (id, outcome) pair per
\* configured artifact, sources in configuration order and the artifacts of a source
\* in their order, whatever the outcomes are.
C12_AnswersInOrder ==
    (last.op = "fetch_all" /\ last.ret.tag = "Ok") =>
        LET answers == last.ret.val IN
        /\ Len(answers) = ArtifactsBefore(Len(config.sources) + 1)
        /\ \A i \in 1..Len(config.sources) :
              \A j \in 1..Len(config.sources[i].artifacts) :
                  LET k == ArtifactsBefore(i) + j
                      a == config.sources[i].artifacts[j]
                  IN  /\ answers[k][1] = a.id
                      /\ answers[k][2] = last.passes[k].ret.val
                      /\ PassProject(k) = a.project_id
                      /\ answers[k][2].answer \in {"NotFound", "NewArtifact", "UpToDate"}

\* a fetch_all over two sources answered NotFound, NewArtifact and UpToDate, in
\* that order
C12_Witness ==
    /\ last.op = "fetch_all"
    /\ last.ret.tag = "Ok"
    /\ Len(config.sources) = 2
    /\ Len(last.ret.val) = 3
    /\ last.ret.val[1] = <<"lib", NotFound>>
    /\ last.ret.val[2] = <<"svc", NewArtifact(<<"t">>)>>
    /\ last.ret.val[3] = <<"svc", UpToDate(<<"t">>)>>

\* the number of configured artifacts
NumArtifacts == ArtifactsBefore(Len(config.sources) + 1)

\* C13: fetch_all aborts at the first artifact that produces an error: it returns that
\* error and no outcomes, and there is no credential lookup, remote call or file write
\* for an artifact later in configuration order.
C13_AbortsAtFirstError ==
    (last.op = "fetch_all" /\ last.ret.tag # "Ok") =>
        LET k == Len(last.passes) IN
        /\ k \in 1..NumArtifacts
        /\ \A j \in 1..(k - 1) : last.passes[j].ret.tag = "Ok"
        /\ last.ret = last.passes[k].ret
        /\ last.ret.tag = "Err"
        /\ DOMAIN last.ret = {"tag", "kind", "detail"}
        /\ \A j \in 1..k :
              /\ Len(last.passes[j].lookups) <= 1
              /\ Len(last.passes[j].requests) <= 1
              /\ \A r \in 1..Len(last.passes[j].requests) :
                    last.passes[j].requests[r].url[3]
                        = ConfiguredPairs[j].artifact.project_id
        /\ files = last.passes[k].files

\* a fetch_all wrote the file of its first artifact, failed at the second and left
\* the third alone
C13_Witness ==
    /\ last.op = "fetch_all"
    /\ last.ret.tag = "Err"
    /\ NumArtifacts = 3
    /\ Len(last.passes) = 2
    /\ last.passes[1].writes # <<>>
    /\ last.passes[2].requests # <<>>

\* the status lines that report success
SuccessStatuses == {"200 OK"}

\* C14: a remote operation that receives a non-success response status fails with
\* SourceRequestError carrying the URL; a download answered with a non-success status
\* is not passed on to archive extraction.
C14_NonSuccessStatusFails ==
    (last.op = "fetch_single" /\ last.response # None
        /\ last.response.val.kind = "response"
        /\ last.response.val.status \notin SuccessStatuses) =>
        /\ last.ret = Err("SourceRequestError", last.requests[1].url)
        /\ last.body = None

\* the fetch_single before got as far as get_artifact_gitlab
Invoked ==
    /\ last.op = "fetch_single"
    /\ last.lookups # <<>>
    /\ last.ret.tag = "Err" =>
          /\ last.ret.kind \notin {"NoSuchArtifact", "NoLogin"}
          /\ last.ret.detail # "Failed to create output dir"

\* the request of get_artifact_gitlab goes to the endpoint the build id selects, for
\* the project (and the branch) of the artifact
RightEndpoint(artifact, build_id, url) ==
    IF build_id = None
    THEN /\ Len(url) = 6
         /\ url[2] = "api/v4/projects/" /\ url[3] = artifact.project_id
         /\ url[4] = "/jobs/artifacts/" /\ url[5] = artifact.branch
         /\ url[6] = "/download?job=build"
    ELSE /\ Len(url) = 6
         /\ url[2] = "api/v4/projects/" /\ url[3] = artifact.project_id
         /\ url[4] = "/jobs/" /\ url[5] = build_id.val
         /\ url[6] = "/artifacts"

\* the bytes the response carried are what was searched with the artifact's pattern
SearchedDownload(artifact) ==
    (last.response.val.kind = "response") =>
        /\ last.body = Some(last.response.val.body)
        /\ last.body.val.kind = "zip" =>
              LET a == last.body.val.entries
                  m == MatchingEntries(a, artifact.artifact_pattern)
              IN  IF m = {} THEN last.found_jar = None
                  ELSE last.found_jar = Some(a[SetMax(m)].name)

\* C15 as stated: every invocation of get_artifact_gitlab issues exactly one download
\* call, to the latest-by-ref endpoint without a build id and to the by-job-id endpoint
\* with one, and the downloaded bytes are what is searched with the pattern.
C15_ExactlyOneDownload ==
    Invoked =>
        LET artifact == find_source_artifact(config.sources, last.art_id, 1).val.artifact IN
        /\ Len(last.requests) = 1
        /\ last.requests[1].method = "GET"
        /\ RightEndpoint(artifact, last.build_id, last.requests[1].url)
        /\ SearchedDownload(artifact)

\* C15: an invocation of get_artifact_gitlab whose token is no valid header value
\* fails with InvalidToken and issues no call; every other invocation issues exactly
\* one download call, to the latest-by-ref endpoint without a build id and to the
\* by-job-id endpoint with one, and the downloaded bytes are what is searched with the
\* artifact's pattern.
C15_OneDownloadWithValidToken ==
    Invoked =>
        LET artifact == find_source_artifact(config.sources, last.art_id, 1).val.artifact IN
        IF last.ret.tag = "Err" /\ last.ret.kind = "InvalidToken"
        THEN last.requests = <<>>
        ELSE /\ Len(last.requests) = 1
             /\ last.requests[1].method = "GET"
             /\ RightEndpoint(artifact, last.build_id, last.requests[1].url)
             /\ SearchedDownload(artifact)

\* a fetch with a build id downloaded the archive of that job and extracted from it
C15_Witness ==
    /\ Invoked
    /\ last.build_id = Some("7")
    /\ Len(last.requests) = 1
    /\ last.requests[1].url[5] = "7"
    /\ last.found_jar # None
    /\ last.ret.tag = "Ok"

\* the archive of the response holds no entry whose name ends with the pattern
NoEntryMatches(response, pattern) ==
    /\ response # None
    /\ response.val.kind = "response"
    /\ response.val.body.kind = "zip"
    /\ MatchingEntries(response.val.body.entries, pattern) = {}

\* a step of fetch_single downloads an archive without a matching entry, or a step of
\* fetch_all has a pass that answers NotFound
C16_Step ==
    /\ (/\ last'.op = "fetch_single"
         /\ LET found == find_source_artifact(config.sources, last'.art_id, 1) IN
            found # None /\ NoEntryMatches(last'.response, found.val.artifact.artifact_pattern))
        => /\ last'.found_jar = None
           /\ last'.file_data = None
           /\ last'.ret = Ok(NotFound)
           /\ last'.writes = <<>>
           /\ files' = files
    /\ last'.op = "fetch_all" =>
          \A k \in 1..Len(last'.passes) :
              last'.passes[k].ret = Ok(NotFound) =>
                  /\ last'.passes[k].writes = <<>>
                  /\ last'.passes[k].files
                        = IF k = 1 THEN files ELSE last'.passes[k - 1].files

\* C16: when no entry name of the archive ends with the artifact's pattern, extraction
\* returns none, the outcome of the fetch is NotFound, a successful result, and no
\* file of the output directory is created or modified.
C16_NotFoundWritesNothing == [][C16_Step]_vars

\* a fetch answered NotFound for an archive with entries, the output directory holding
\* a file
C16_Witness ==
    /\ last.op = "fetch_single"
    /\ last.ret = Ok(NotFound)
    /\ last.body # None
    /\ last.body.val.kind = "zip"
    /\ last.body.val.entries # <<>>
    /\ \E n \in OutNames : files[n] # None

\* the artifact j of source i carries the id and none before it in configuration
\* order does
FirstWithId(art_id, i, j) ==
    /\ config.sources[i].artifacts[j].id = art_id
    /\ \A j2 \in 1..(j - 1) : config.sources[i].artifacts[j2].id # art_id
    /\ \A i2 \in 1..(i - 1) :
          \A j2 \in 1..Len(config.sources[i2].artifacts) :
              config.sources[i2].artifacts[j2].id # art_id

\* C18: fetch_single fetches the first artifact with the requested id, sources taken
\* in configuration order and the artifacts of a source in their order, and resolves
\* the credential for the URL of that artifact's own source.
C18_FirstMatchWins ==
    last.op = "fetch_single" =>
        \A i \in 1..Len(config.sources) :
            \A j \in 1..Len(config.sources[i].artifacts) :
                FirstWithId(last.art_id, i, j) =>
                    LET source == config.sources[i]
                        artifact == source.artifacts[j]
                    IN  /\ last.lookups = <<source.url>>
                        /\ \A r \in 1..Len(last.requests) :
                              /\ last.requests[r].url[3] = artifact.project_id
                              /\ \E l \in 1..Len(logins) :
                                    /\ starts_with(source.url, logins[l].url)
                                    /\ logins[l].password = last.requests[r].token
                        /\ last.found_jar # None
                              => ends_with(last.found_jar.val, artifact.artifact_pattern)

\* the id asked for is configured in two sources and the artifact of the first one
\* was fetched with a credential for the first source
C18_Witness ==
    /\ last.op = "fetch_single"
    /\ Len(config.sources) = 2
    /\ \E j \in 1..Len(config.sources[1].artifacts) :
          config.sources[1].artifacts[j].id = last.art_id
    /\ \E j \in 1..Len(config.sources[2].artifacts) :
          config.sources[2].artifacts[j].id = last.art_id
    /\ last.lookups = <<config.sources[1].url>>
    /\ Len(last.requests) = 1
    /\ last.requests[1].url[3] = config.sources[1].artifacts[1].project_id
    /\ last.ret.tag = "Ok"

\* the k-th pass of the fetch_all of this step found the output directory as the pass
\* before it left it, and left it changed at most in the file it wrote
PassAfterPass(k) ==
    LET before == IF k = 1 THEN files ELSE last'.passes[k - 1].files
        pass == last'.passes[k]
    IN  /\ pass.file_data # None =>
              pass.stored_before = before[pass.file_data.val.file_name]
        /\ \A n \in OutNames :
              pass.files[n] # before[n] => pass.writes = <<n>>

\* a step of fetch_all
C19_Step ==
    last'.op = "fetch_all" =>
        LET pairs == artifacts_in_order(config.sources, 1) IN
        /\ Len(last'.passes) <= Len(pairs)
        /\ \A k \in 1..Len(last'.passes) :
              /\ Len(last'.passes[k].requests) <= 1
              /\ k < Len(last'.passes) => last'.passes[k].ret.tag = "Ok"
              /\ PassAfterPass(k)
        /\ files' = IF last'.passes = <<>> THEN files
                     ELSE last'.passes[Len(last'.passes)].files
        /\ last'.ret.tag = "Ok" =>
              /\ Len(last'.passes) = Len(pairs)
              /\ \A k \in 1..Len(pairs) :
                    /\ Len(last'.passes[k].requests) = 1
                    /\ RightEndpoint(pairs[k].artifact, None,
                                     last'.passes[k].requests[1].url)

\* C19: a successful fetch_all over n artifacts issues exactly n download calls, one
\* per artifact in configuration order, each completed, its write included, before the
\* next is started; no call is repeated or retried after a failure.
C19_OneCallPerArtifactInOrder == [][C19_Step]_vars

\* a successful fetch_all of three artifacts in which a later pass found the file an
\* earlier pass had just written
C19_Witness ==
    /\ last.op = "fetch_all"
    /\ last.ret.tag = "Ok"
    /\ Len(last.passes) = 3
    /\ last.passes[2].writes = <<<<"t">>>>
    /\ last.passes[2].stored_before = None
    /\ last.passes[3].stored_before = Some(last.passes[2].file_data.val.data)

\* the token of the request is the secret of a credential whose URL is a prefix of
\* the address the request goes to
SecretStaysUnderItsUrl(request) ==
    \E l \in 1..Len(logins) :
        /\ logins[l].password = request.token
        /\ starts_with(request.url, logins[l].url)

\* C22: during fetch_single and fetch_all the secret attached to a remote request
\* belongs to a credential whose URL is a prefix of the URL the request is sent to: the
\* secret of a source only goes to addresses under the base URL of that source.
C22_SecretOnlyToItsSource ==
    /\ last.op = "fetch_single" =>
          \A r \in 1..Len(last.requests) : SecretStaysUnderItsUrl(last.requests[r])
    /\ last.op = "fetch_all" =>
          \A k \in 1..Len(last.passes) :
              \A r \in 1..Len(last.passes[k].requests) :
                  SecretStaysUnderItsUrl(last.passes[k].requests[r])

\* the passes k1 and k2 of a fetch_all, k1 the earlier, extracted files of one name
\* with different content, and no other pass extracted a file of that name
SameNameDifferentContent(f, k1, k2) ==
    /\ k1 < k2
    /\ f.passes[k1].file_data # None
    /\ f.passes[k2].file_data # None
    /\ f.passes[k1].file_data.val.file_name = f.passes[k2].file_data.val.file_name
    /\ f.passes[k1].file_data.val.data # f.passes[k2].file_data.val.data
    /\ \A k \in 1..Len(f.passes) :
          (k \notin {k1, k2} /\ f.passes[k].file_data # None)
              => f.passes[k].file_data.val.file_name
                     # f.passes[k1].file_data.val.file_name

\* C23 as stated: when two configured artifacts extract to the same basename with
\* different content, every fetch_all run reports NewArtifact for both of them and
\* leaves the content of the later one stored.
C23_BothAlwaysNew ==
    (last.op = "fetch_all" /\ last.ret.tag = "Ok") =>
        \A k1, k2 \in 1..Len(last.passes) :
            SameNameDifferentContent(last, k1, k2) =>
                LET name == last.passes[k1].file_data.val.file_name IN
                /\ last.passes[k1].ret = Ok(NewArtifact(name))
                /\ last.passes[k2].ret = Ok(NewArtifact(name))
                /\ files[name] = Some(last.passes[k2].file_data.val.data)

\* C23: when two configured artifacts extract to the same basename with different
\* content, every fetch_all run reports NewArtifact for the later one and leaves its
\* content stored; the earlier one is reported NewArtifact unless the stored file held
\* exactly its content when the run came to it, and then it is reported UpToDate.
C23_LaterAlwaysNew ==
    (last.op = "fetch_all" /\ last.ret.tag = "Ok") =>
        \A k1, k2 \in 1..Len(last.passes) :
            SameNameDifferentContent(last, k1, k2) =>
                LET name == last.passes[k1].file_data.val.file_name
                    data1 == last.passes[k1].file_data.val.data
                IN  /\ last.passes[k2].ret = Ok(NewArtifact(name))
                    /\ files[name] = Some(last.passes[k2].file_data.val.data)
                    /\ last.passes[k1].ret =
                          IF last.passes[k1].stored_before = Some(data1)
                          THEN Ok(UpToDate(name)) ELSE Ok(NewArtifact(name))

\* a fetch_all found the content of the later artifact stored by the run before and
\* reported both artifacts new again
C23_Witness ==
    /\ last.op = "fetch_all"
    /\ last.ret.tag = "Ok"
    /\ \E k1, k2 \in 1..Len(last.passes) :
          /\ SameNameDifferentContent(last, k1, k2)
          /\ last.passes[k1].stored_before = Some(last.passes[k2].file_data.val.data)
          /\ last.passes[k1].ret.val.answer = "NewArtifact"
          /\ last.passes[k2].ret.val.answer = "NewArtifact"

\* the pass k of the failed fetch_all before was reported NewArtifact
EarlierNew(k) ==
    /\ k < Len(last.passes)
    /\ last.passes[k].ret.tag = "Ok"
    /\ last.passes[k].ret.val.answer = "NewArtifact"

\* C24 as stated: when fetch_all aborts with an error at some artifact, each earlier
\* artifact that was classified NewArtifact still has its new bytes in the output
\* directory, and fetch_all returns only the error.
C24_EarlierWritesStay ==
    (last.op = "fetch_all" /\ last.ret.tag # "Ok") =>
        /\ last.ret.tag = "Err"
        /\ \A k \in 1..Len(last.passes) :
              EarlierNew(k) =>
                  files[last.passes[k].ret.val.name]
                      = Some(last.passes[k].file_data.val.data)

\* C24: when fetch_all aborts with an error at some artifact, nothing is rolled back:
\* each earlier artifact that was classified NewArtifact still has its new bytes in
\* the output directory unless a later pass of the run, the failing one included,
\* wrote to the file of the same name; fetch_all returns only the error.
C24_NoRollback ==
    (last.op = "fetch_all" /\ last.ret.tag # "Ok") =>
        /\ last.ret.tag = "Err"
        /\ \A k \in 1..Len(last.passes) :
              (/\ EarlierNew(k)
               /\ \A j \in (k + 1)..Len(last.passes) :
                     last.passes[j].writes # <<last.passes[k].ret.val.name>>)
                  => files[last.passes[k].ret.val.name]
                         = Some(last.passes[k].file_data.val.data)

\* a fetch_all failed at its third artifact and the file its second artifact had
\* newly written is still there
C24_Witness ==
    /\ last.op = "fetch_all"
    /\ last.ret.tag = "Err"
    /\ Len(last.passes) = 3
    /\ EarlierNew(2)
    /\ last.passes[2].stored_before = None
    /\ last.passes[3].writes = <<>>
    /\ files[last.passes[2].ret.val.name] = Some(last.passes[2].file_data.val.data)

----------------------------------------------------------------------------
(* Claims on a store filled by set_login alone *)

\* the URLs of a store, in the order of its records
Urls(ls) == [i \in 1..Len(ls) |-> ls[i].url]

NoTwoOfOneUrl(ls) == \A i, j \in 1..Len(ls) : ls[i].url = ls[j].url => i = j

\* a set_login step keeps the URLs and their order when the URL is already in the
\* store, and puts a URL set for the first time after all the others
C25_Step ==
    lop'.op = "set_login" =>
        /\ NoTwoOfOneUrl(logins')
        /\ Urls(logins') =
              IF \E i \in 1..Len(logins) : logins[i].url = lop'.login.url
              THEN Urls(logins)
              ELSE Append(Urls(logins), lop'.login.url)

\* C25: starting from the empty store, after any sequence of set_login operations no
\* two records have the same URL and the records are in the order in which their URLs
\* were first set.
C25_UniqueInFirstSetOrder == [][C25_Step]_vars

\* the URL set first is set again after a second URL: its record is replaced and is
\* still the first of two
C25_Witness ==
    /\ lop.op = "set_login"
    /\ lop.ret.tag = "Some"
    /\ lop.ret.val # lop.login
    /\ Len(logins) = 2
    /\ logins[1] = lop.login
    /\ logins[2].url # logins[1].url

====
